---- MODULE Spec2Model ----
(***************************************************************************)
(* Model of chromedriver/ChromeDriverFetcher.py: the resolution of a       *)
(* chromedriver download URL for the installed Chrome version, and the     *)
(* download / unzip / install / launch sequence of executeDriver.          *)
(*                                                                         *)
(* Python strings that the code splits, joins, compares by prefix or       *)
(* parses as integers are sequences of one-character strings.  None is the *)
(* record None.  A raised exception is an outcome "raise".  The catalog    *)
(* document names its versions by string literals, which json.loads turns  *)
(* into the character sequences the code works on.                         *)
(***************************************************************************)
EXTENDS Integers, Sequences, FiniteSets, TLC

VARIABLES
  chromeVersion,   \* self.chromeVersion
  platform,        \* self.platform
  \* one call of getChromedriverUrl, with its locals
  catalog,         \* the document served at self.downloadsFile
  latestRelease,   \* the body served at LATEST_RELEASE_<major.minor.build>
  callState,       \* "ready", "returned" or "raised"
  versionData,     \* getChromedriverUrl: versionData
  returned,        \* the value getChromedriverUrl returned
  requests,        \* the network requests the call made, in order
  \* invocations of executeDriver sharing one cache target
  target,          \* the file at getTargetPath()
  pc,              \* position of each invocation
  seen,            \* what the check of line 296 found: "unchecked", "valid" or "invalid"
  url,             \* downloadChromeDriver: url
  scratch,         \* the TemporaryDirectory of each invocation
  st,              \* downloadAndUnzipChromeDriver: st.st_mode
  net,             \* the network requests of each invocation, in order
  \* two fetcher objects with one cacheDir
  other,           \* platform and chromeVersion of a second object
  targetPath       \* getTargetPath() of the two objects, once called

resolveVars == <<catalog, latestRelease, callState, versionData, returned, requests>>
driverVars == <<target, pc, seen, url, scratch, st, net>>
pathVars == <<other, targetPath>>
fields == <<chromeVersion, platform>>
vars == <<chromeVersion, platform, catalog, latestRelease, callState,
          versionData, returned, requests, target, pc, seen, url, scratch, st, net,
          other, targetPath>>

----------------------------------------------------------------------------
(* Bounds *)

MaxCatalogLen == 3
NumProcs == 2

----------------------------------------------------------------------------
(* Python built-ins used by the code *)

None == [tag |-> "None"]

DigitVal(c) ==
  CASE c = "0" -> 0 [] c = "1" -> 1 [] c = "2" -> 2 [] c = "3" -> 3 [] c = "4" -> 4
    [] c = "5" -> 5 [] c = "6" -> 6 [] c = "7" -> 7 [] c = "8" -> 8 [] c = "9" -> 9

RECURSIVE int(_)
int(s) ==
  IF Len(s) = 1 THEN DigitVal(s[1])
  ELSE 10 * int(SubSeq(s, 1, Len(s) - 1)) + DigitVal(s[Len(s)])

RECURSIVE split(_, _)
split(s, sep) ==
  IF \A i \in 1..Len(s) : s[i] # sep THEN <<s>>
  ELSE LET i == CHOOSE k \in 1..Len(s) : s[k] = sep /\ \A j \in 1..(k - 1) : s[j] # sep
       IN  <<SubSeq(s, 1, i - 1)>> \o split(SubSeq(s, i + 1, Len(s)), sep)

RECURSIVE join(_, _)
join(sep, parts) ==
  IF parts = <<>> THEN <<>>
  ELSE IF Len(parts) = 1 THEN parts[1]
  ELSE parts[1] \o <<sep>> \o join(sep, Tail(parts))

pop(list) == SubSeq(list, 1, Len(list) - 1)

startswith(s, prefix) ==
  /\ Len(prefix) <= Len(s)
  /\ SubSeq(s, 1, Len(prefix)) = prefix

get(dict, key) == IF key \in DOMAIN dict THEN dict[key] ELSE None

----------------------------------------------------------------------------
(* Inputs: versions, platforms, catalog entries *)

v114_0_6_5 == <<"1","1","4",".","0",".","6",".","5">>
v115_0_6_3 == <<"1","1","5",".","0",".","6",".","3">>
v115_0_6_4 == <<"1","1","5",".","0",".","6",".","4">>
v115_0_6_5 == <<"1","1","5",".","0",".","6",".","5">>
v115_0_6_7 == <<"1","1","5",".","0",".","6",".","7">>
v115_0_60_3 == <<"1","1","5",".","0",".","6","0",".","3">>
v114_0_6_9 == <<"1","1","4",".","0",".","6",".","9">>

ChromeVersions == {v114_0_6_5, v115_0_6_5}
Platforms == {"linux64", "mac-x64"}

\* the characters of the version strings of the catalog document
chars(str) ==
  CASE str = "114.0.6.5" -> v114_0_6_5
    [] str = "115.0.6.3" -> v115_0_6_3
    [] str = "115.0.6.4" -> v115_0_6_4
    [] str = "115.0.6.5" -> v115_0_6_5
    [] str = "115.0.6.7" -> v115_0_6_7
    [] str = "115.0.60.3" -> v115_0_60_3

CatalogUrl(version, plat) == [scheme |-> "catalog", release |-> version, platform |-> plat]

\* an entry of the catalog document: a version and the platforms of its
\* chromedriver downloads, or "none" for an entry without chromedriver key
Entries ==
  { [version |-> "115.0.6.3", chromedriver |-> "linux64,mac-x64"],
    [version |-> "115.0.6.4", chromedriver |-> "mac-x64"],
    [version |-> "115.0.6.5", chromedriver |-> "linux64,mac-x64"],
    [version |-> "115.0.6.7", chromedriver |-> "linux64,mac-x64"],
    [version |-> "115.0.60.3", chromedriver |-> "linux64,mac-x64"],
    [version |-> "114.0.6.5", chromedriver |-> "linux64,mac-x64"],
    [version |-> "115.0.6.3", chromedriver |-> "none"] }

Catalogs == UNION { [1..n -> Entries] : n \in 0..MaxCatalogLen }

platformList(str) ==
  CASE str = "linux64,mac-x64" -> <<"linux64", "mac-x64">>
    [] str = "mac-x64" -> <<"mac-x64">>

\* the "downloads" object of an entry; a Python list is the record
\* [list |-> <<...>>]
Downloads(version, plats) ==
  [chrome |-> <<>>,
   chromedriver |-> [list |-> [i \in 1..Len(plats) |->
                       [platform |-> plats[i], url |-> CatalogUrl(version, plats[i])]]]]

\* json.loads of one entry of the document
loadEntry(e) ==
  [version |-> chars(e.version),
   downloads |-> IF e.chromedriver = "none" THEN [chrome |-> <<>>]
                 ELSE Downloads(chars(e.version), platformList(e.chromedriver))]

\* json.loads(response.decode('utf-8'))
loads(document) == [versions |-> [i \in 1..Len(document) |-> loadEntry(document[i])]]

LatestReleases == { v114_0_6_9, <<>> }

\* a response of an HTTP GET: a body, or a transport failure
Ok(body) == [ok |-> TRUE, body |-> body]
Failed == [ok |-> FALSE]

----------------------------------------------------------------------------
(* Version resolution *)

Return(value, reqs, vd) ==
  [outcome |-> "return", value |-> value, requests |-> reqs, versionData |-> vd]
Raise(error, reqs, vd) ==
  [outcome |-> "raise", value |-> [error |-> error], requests |-> reqs, versionData |-> vd]

LegacyUrl(latestVersion, plat) ==
  [scheme |-> "legacy", release |-> latestVersion, platform |-> plat]

\* urllib.request.urlopen(latestVersionAvailableUrl).read(), then the URL template
getLegacyChromedriverUrl(ver, plat, legacyResponse) ==
  LET version == join(".", pop(split(ver, ".")))
  IN  IF ~legacyResponse.ok
      THEN Raise("URLError", <<[kind |-> "legacy", key |-> version]>>, None)
      ELSE Return(LegacyUrl(legacyResponse.body, plat),
                  <<[kind |-> "legacy", key |-> version]>>, None)

\* getVersionData, of a response that arrived
getVersionData(response) == loads(response.body)

\* the comparison of line 210 turned round
isNewerInverted(thisPatchNumber, patchNumber) == thisPatchNumber < patchNumber

isNewer(thisPatchNumber, patchNumber) == thisPatchNumber > patchNumber

\* the first loop without the early return of an exact match
RECURSIVE scanVersionsNoEarlyReturn(_, _, _, _)
scanVersionsNoEarlyReturn(versions, ver, majorMinorVersion, possibleVersions) ==
  IF versions = <<>> THEN [exact |-> FALSE, possibleVersions |-> possibleVersions]
  ELSE LET vd == Head(versions)
       IN  scanVersionsNoEarlyReturn(Tail(versions), ver, majorMinorVersion,
                                     IF startswith(vd.version, majorMinorVersion)
                                     THEN <<vd>> \o possibleVersions
                                     ELSE possibleVersions)

\* the first loop: an exact match returns at once, a prefix match is put in
\* front of possibleVersions
RECURSIVE scanVersions(_, _, _, _)
scanVersions(versions, ver, majorMinorVersion, possibleVersions) ==
  IF versions = <<>> THEN [exact |-> FALSE, possibleVersions |-> possibleVersions]
  ELSE LET vd == Head(versions)
       IN  IF vd.version = ver THEN [exact |-> TRUE, versionData |-> vd]
           ELSE scanVersions(Tail(versions), ver, majorMinorVersion,
                             IF startswith(vd.version, majorMinorVersion)
                             THEN <<vd>> \o possibleVersions
                             ELSE possibleVersions)

\* the second loop: the first of possibleVersions that is not newer; falls
\* off the end (None) when every one is newer
RECURSIVE firstNotNewer(_, _)
firstNotNewer(possibleVersions, patchNumber) ==
  IF possibleVersions = <<>> THEN None
  ELSE LET vd == Head(possibleVersions)
           thisPatchNumber == int(split(vd.version, ".")[4])
       IN  IF isNewer(thisPatchNumber, patchNumber)
           THEN firstNotNewer(Tail(possibleVersions), patchNumber)
           ELSE vd

getClosestVersionMatch(ver, c) ==
  LET majorMinorVersion == join(".", pop(split(ver, ".")))
      scan == scanVersions(c.versions, ver, majorMinorVersion, <<>>)
      patchNumber == int(split(ver, ".")[4])
  IN  IF scan.exact THEN scan.versionData
      ELSE firstNotNewer(scan.possibleVersions, patchNumber)

\* for platformData in chromedriverData: the url of the first item of the
\* platform; the function ends without a return statement (None) otherwise
RECURSIVE urlForPlatform(_, _)
urlForPlatform(chromedriverData, plat) ==
  IF chromedriverData = <<>> THEN None
  ELSE IF get(Head(chromedriverData), "platform") = plat
       THEN get(Head(chromedriverData), "url")
       ELSE urlForPlatform(Tail(chromedriverData), plat)

\* the boundary of line 170 moved by one
isLegacyBelow114(ver) == int(split(ver, ".")[1]) < 114

isLegacy(ver) == int(split(ver, ".")[1]) <= 114

getChromedriverUrl(ver, plat, catalogResponse, legacyResponse) ==
  IF isLegacy(ver) THEN getLegacyChromedriverUrl(ver, plat, legacyResponse)
  ELSE LET reqs == <<[kind |-> "catalog", key |-> <<>>]>>
       IN  IF ~catalogResponse.ok THEN Raise("URLError", reqs, None)
           ELSE LET vd == getClosestVersionMatch(ver, getVersionData(catalogResponse))
                    chromedriverData == get(vd.downloads, "chromedriver")
                IN  IF vd = None THEN Raise("ValueError", reqs, vd)
                    ELSE IF chromedriverData = None THEN Raise("ValueError", reqs, vd)
                    ELSE Return(urlForPlatform(chromedriverData.list, plat), reqs, vd)

----------------------------------------------------------------------------
(* One call of getChromedriverUrl *)

InitResolve ==
  /\ chromeVersion \in ChromeVersions
  /\ platform \in Platforms
  /\ catalog \in Catalogs
  /\ latestRelease \in LatestReleases
  /\ callState = "ready"
  /\ versionData = None
  /\ returned = None
  /\ requests = <<>>
  /\ target = None
  /\ pc = <<>>
  /\ seen = <<>>
  /\ url = <<>>
  /\ scratch = <<>>
  /\ st = <<>>
  /\ net = <<>>
  /\ other = None
  /\ targetPath = None

CallGetChromedriverUrl ==
  /\ callState = "ready"
  /\ \E catalogResponse \in {Ok(catalog), Failed}, legacyResponse \in {Ok(latestRelease), Failed} :
       \E r \in {getChromedriverUrl(chromeVersion, platform, catalogResponse, legacyResponse)} :
           /\ callState' = IF r.outcome = "return" THEN "returned" ELSE "raised"
           /\ returned' = r.value
           /\ requests' = r.requests
           /\ versionData' = r.versionData
  /\ UNCHANGED <<fields, catalog, latestRelease, driverVars, pathVars>>

NextResolve == CallGetChromedriverUrl

SpecResolve == InitResolve /\ [][NextResolve]_vars

----------------------------------------------------------------------------
(* executeDriver: invocations that share the cache target of one            *)
(* (platform, version).  Every invocation is one run of the program; the    *)
(* user who runs it owns the cache target and is not root.                  *)

Procs == 1..NumProcs

PermBits == {"S_IWUSR", "S_IEXEC", "S_IXGRP"}

\* mode of a file that open(dst, 'wb') creates
NewFileMode == {"S_IWUSR"}

NoFile == [exists |-> FALSE, mode |-> {}, content |-> "none"]

NoDir == [dir |-> FALSE, zip |-> None, files |-> {}]

\* getPathInZip with the boundary of line 248 moved by one
getPathInZipBelow114(ver, plat) ==
  IF int(split(ver, ".")[1]) < 114 THEN <<"chromedriver">>
  ELSE <<"chromedriver-", plat, "chromedriver">>

\* getPathInZip, relative to targetDirectory.name
getPathInZip(ver, plat) ==
  IF int(split(ver, ".")[1]) <= 114 THEN <<"chromedriver">>
  ELSE <<"chromedriver-", plat, "chromedriver">>

\* the archives a download can deliver: not a zip file, the legacy layout,
\* the layout of the catalog's archives
Archives(plat) ==
  { [zip |-> FALSE, files |-> {}],
    [zip |-> TRUE, files |-> {<<"chromedriver">>}],
    [zip |-> TRUE, files |-> {<<"chromedriver-", plat, "chromedriver">>}] }

\* the call with its requests sent twice
outcomeOfRepeated(v, pl, r) ==
  [ver |-> v, plat |-> pl, outcome |-> r.outcome, value |-> r.value,
   kinds |-> [i \in 1..(2 * Len(r.requests)) |-> r.requests[((i - 1) % Len(r.requests)) + 1].kind]]

\* what getChromedriverUrl can do for a (version, platform), over every
\* answer of the two endpoints
outcomeOf(v, pl, r) ==
  [ver |-> v, plat |-> pl, outcome |-> r.outcome, value |-> r.value,
   kinds |-> [i \in 1..Len(r.requests) |-> r.requests[i].kind]]

ResolveOutcomes ==
  UNION { UNION { { outcomeOf(v, pl, getChromedriverUrl(v, pl, cr, lr)) :
                      cr \in {Ok(c) : c \in Catalogs} \cup {Failed},
                      lr \in {Ok(l) : l \in LatestReleases} \cup {Failed} } :
                  pl \in Platforms } : v \in ChromeVersions }

\* os.path.isfile(driverPath)
isfile(f) == f.exists

\* os.access(driverPath, os.X_OK), as the owner
access(f) == f.exists /\ "S_IEXEC" \in f.mode

\* line 296, without the requirement of the execute bit
needsDownloadIfMissing(f) == ~isfile(f)

\* line 296, with the second "not" left out
needsDownloadAccessInverted(f) == ~isfile(f) \/ access(f)

\* line 296 with a condition that never holds
needsDownloadNever(f) == FALSE

\* line 296: not os.path.isfile(driverPath) or not os.access(driverPath, os.X_OK)
needsDownload(f) == ~isfile(f) \/ ~access(f)

\* the mode unchanged
chmodNothing(mode) == mode

\* os.chmod(targetFile, stat.S_IEXEC)
chmodOnlyExec(mode) == {"S_IEXEC"}

\* st.st_mode | stat.S_IEXEC
chmodExec(mode) == mode \cup {"S_IEXEC"}

\* a directory that nothing removes
cleanupNever(d) == d

\* TemporaryDirectory's finalizer: runs when the object is released at the
\* return of downloadAndUnzipChromeDriver, or at interpreter exit
cleanup(d) == NoDir

Init ==
  /\ chromeVersion \in ChromeVersions
  /\ platform \in Platforms
  /\ catalog = None
  /\ latestRelease = None
  /\ callState = "unused"
  /\ versionData = None
  /\ returned = None
  /\ requests = <<>>
  /\ target \in {NoFile} \cup { [exists |-> TRUE, mode |-> m, content |-> "stale"] : m \in SUBSET PermBits }
  /\ pc = [p \in Procs |-> "executeDriver"]
  /\ seen = [p \in Procs |-> "unchecked"]
  /\ url = [p \in Procs |-> None]
  /\ scratch = [p \in Procs |-> NoDir]
  /\ st = [p \in Procs |-> {}]
  /\ net = [p \in Procs |-> <<>>]
  /\ other = None
  /\ targetPath = None

\* lines 293-297: the cache check
CheckCache(p) ==
  /\ pc[p] = "executeDriver"
  /\ seen' = [seen EXCEPT ![p] = IF isfile(target) /\ access(target) THEN "valid" ELSE "invalid"]
  /\ pc' = [pc EXCEPT ![p] = IF needsDownload(target) THEN "getChromedriverUrl" ELSE "launch"]
  /\ UNCHANGED <<target, url, scratch, net, st, fields, resolveVars, pathVars>>

\* lines 234-236: url = self.getChromedriverUrl()
Resolve(p) ==
  /\ pc[p] = "getChromedriverUrl"
  /\ \E r \in ResolveOutcomes :
       /\ r.ver = chromeVersion /\ r.plat = platform
       /\ net' = [net EXCEPT ![p] = @ \o r.kinds]
       /\ IF r.outcome = "return"
          THEN url' = [url EXCEPT ![p] = r.value] /\ pc' = [pc EXCEPT ![p] = "urlretrieve"]
          ELSE url' = url /\ pc' = [pc EXCEPT ![p] = "raising"]
  /\ UNCHANGED <<target, scratch, seen, st, fields, resolveVars, pathVars>>

\* lines 238-244: the TemporaryDirectory is made, then urlretrieve(url, targetFile);
\* urlretrieve(None, ...) raises TypeError before any request is sent
Download(p) ==
  /\ pc[p] = "urlretrieve"
  /\ url' = [url EXCEPT ![p] = None]
  /\ IF url[p] = None
     THEN /\ scratch' = [scratch EXCEPT ![p] = [dir |-> TRUE, zip |-> None, files |-> {}]]
          /\ pc' = [pc EXCEPT ![p] = "raising"]
          /\ net' = net
     ELSE /\ net' = [net EXCEPT ![p] = Append(@, "archive")]
          /\ \E response \in {Ok(a) : a \in Archives(platform)} \cup {Failed} :
               IF response.ok
               THEN /\ scratch' = [scratch EXCEPT ![p] = [dir |-> TRUE, zip |-> response.body, files |-> {}]]
                    /\ pc' = [pc EXCEPT ![p] = "extractall"]
               ELSE /\ scratch' = [scratch EXCEPT ![p] = [dir |-> TRUE, zip |-> None, files |-> {}]]
                    /\ pc' = [pc EXCEPT ![p] = "raising"]
  /\ UNCHANGED <<target, seen, st, fields, resolveVars, pathVars>>

\* lines 262-264: zipfile.ZipFile(zipFile) raises BadZipFile, or extractall
Unzip(p) ==
  /\ pc[p] = "extractall"
  /\ IF scratch[p].zip.zip
     THEN /\ scratch' = [scratch EXCEPT ![p].files = scratch[p].zip.files]
          /\ pc' = [pc EXCEPT ![p] = "copyfile"]
     ELSE /\ scratch' = scratch
          /\ pc' = [pc EXCEPT ![p] = "raising"]
  /\ UNCHANGED <<target, url, net, seen, st, fields, resolveVars, pathVars>>

\* a copy that opens the target before it opens the source
CopyOpenTargetFirst(p) ==
  /\ pc[p] = "copyfile"
  /\ IF target.exists /\ "S_IWUSR" \notin target.mode
     THEN target' = target /\ pc' = [pc EXCEPT ![p] = "raising"]
     ELSE /\ target' = [exists |-> TRUE,
                        mode |-> IF target.exists THEN target.mode ELSE NewFileMode,
                        content |-> "partial"]
          /\ pc' = [pc EXCEPT ![p] =
                      IF getPathInZip(chromeVersion, platform) \in scratch[p].files
                      THEN "copying" ELSE "raising"]
  /\ UNCHANGED <<url, scratch, net, seen, st, fields, resolveVars, pathVars>>

\* a copy that creates the target exclusively (open(dst, 'xb'))
CopyOpenExclusive(p) ==
  /\ pc[p] = "copyfile"
  /\ IF getPathInZip(chromeVersion, platform) \notin scratch[p].files \/ target.exists
     THEN target' = target /\ pc' = [pc EXCEPT ![p] = "raising"]
     ELSE /\ target' = [exists |-> TRUE, mode |-> NewFileMode, content |-> "partial"]
          /\ pc' = [pc EXCEPT ![p] = "copying"]
  /\ UNCHANGED <<url, scratch, net, seen, st, fields, resolveVars, pathVars>>

\* lines 266-270, shutil.copyfile opening its files: the source first
\* (FileNotFoundError), then the target for writing, which creates or
\* truncates it and keeps the mode of an existing file (PermissionError
\* when the file is not writable)
CopyOpen(p) ==
  /\ pc[p] = "copyfile"
  /\ IF getPathInZip(chromeVersion, platform) \notin scratch[p].files
     THEN target' = target /\ pc' = [pc EXCEPT ![p] = "raising"]
     ELSE IF target.exists /\ "S_IWUSR" \notin target.mode
     THEN target' = target /\ pc' = [pc EXCEPT ![p] = "raising"]
     ELSE /\ target' = [exists |-> TRUE,
                        mode |-> IF target.exists THEN target.mode ELSE NewFileMode,
                        content |-> "partial"]
          /\ pc' = [pc EXCEPT ![p] = "copying"]
  /\ UNCHANGED <<url, scratch, net, seen, st, fields, resolveVars, pathVars>>

\* shutil.copyfile writing: the file holds the whole driver once no writer
\* is left; a write error (OSError) leaves what was written
CopyWrite(p) ==
  /\ pc[p] = "copying"
  /\ \/ /\ target' = [target EXCEPT !.content =
                        IF \E q \in Procs \ {p} : pc[q] = "copying" THEN "partial" ELSE "driver"]
        /\ pc' = [pc EXCEPT ![p] = "stat"]
     \/ /\ target' = target
        /\ pc' = [pc EXCEPT ![p] = "raising"]
  /\ UNCHANGED <<url, scratch, net, seen, st, fields, resolveVars, pathVars>>

\* line 272: st = os.stat(targetFile)
Stat(p) ==
  /\ pc[p] = "stat"
  /\ st' = [st EXCEPT ![p] = target.mode]
  /\ pc' = [pc EXCEPT ![p] = "chmod"]
  /\ UNCHANGED <<target, url, scratch, net, seen, fields, resolveVars, pathVars>>

\* line 273: os.chmod(targetFile, st.st_mode | stat.S_IEXEC), then the
\* function returns and the TemporaryDirectory is released; os.chmod can
\* fail (OSError)
Chmod(p) ==
  /\ pc[p] = "chmod"
  /\ \/ /\ target' = [target EXCEPT !.mode = chmodExec(st[p])]
        /\ scratch' = [scratch EXCEPT ![p] = cleanup(scratch[p])]
        /\ pc' = [pc EXCEPT ![p] = "launch"]
     \/ /\ target' = target
        /\ scratch' = scratch
        /\ pc' = [pc EXCEPT ![p] = "raising"]
  /\ st' = [st EXCEPT ![p] = {}]
  /\ UNCHANGED <<url, net, seen, fields, resolveVars, pathVars>>

\* lines 299-319: the config file is written and the driver is run
Launch(p) ==
  /\ pc[p] = "launch"
  /\ pc' = [pc EXCEPT ![p] = "done"]
  /\ UNCHANGED <<target, url, scratch, net, seen, st, fields, resolveVars, pathVars>>

\* an exception leaves executeDriver uncaught: the interpreter exits and
\* runs the finalizers that are left
Exit(p) ==
  /\ pc[p] = "raising"
  /\ scratch' = [scratch EXCEPT ![p] = cleanup(scratch[p])]
  /\ pc' = [pc EXCEPT ![p] = "failed"]
  /\ UNCHANGED <<target, url, net, seen, st, fields, resolveVars, pathVars>>

Next ==
  \E p \in Procs :
    \/ CheckCache(p)
    \/ Resolve(p)
    \/ Download(p)
    \/ Unzip(p)
    \/ CopyOpen(p)
    \/ CopyWrite(p)
    \/ Stat(p)
    \/ Chmod(p)
    \/ Launch(p)
    \/ Exit(p)

Spec == Init /\ [][Next]_vars

----------------------------------------------------------------------------
(* getTargetPath of two fetcher objects that have the same cacheDir *)

PlatformIds == {"mac-x64", "mac-arm64", "linux64", "win32", "win64"}

platformChars(plat) ==
  CASE plat = "mac-x64" -> <<"m","a","c","-","x","6","4">>
    [] plat = "mac-arm64" -> <<"m","a","c","-","a","r","m","6","4">>
    [] plat = "linux64" -> <<"l","i","n","u","x","6","4">>
    [] plat = "win32" -> <<"w","i","n","3","2">>
    [] plat = "win64" -> <<"w","i","n","6","4">>

PathVersions ==
  {v114_0_6_5, v115_0_6_3, v115_0_6_4, v115_0_6_5, v115_0_6_7, v115_0_60_3, v114_0_6_9}

\* self.cacheDir
cacheDir == <<"c","a","c","h","e">>

\* "%s/chromedriver_%s" % (cacheDir, chromeVersion): the platform left out
getTargetPathNoPlatform(dir, plat, ver) ==
  dir \o <<"/","c","h","r","o","m","e","d","r","i","v","e","r","_">> \o ver

\* "%s/chromedriver_%s_%s" % (cacheDir, platform, chromeVersion)
getTargetPath(dir, plat, ver) ==
  dir \o <<"/","c","h","r","o","m","e","d","r","i","v","e","r","_">>
      \o platformChars(plat) \o <<"_">> \o ver

InitPath ==
  /\ chromeVersion \in PathVersions
  /\ platform \in PlatformIds
  /\ other \in [platform : PlatformIds, chromeVersion : PathVersions]
  /\ targetPath = None
  /\ catalog = None
  /\ latestRelease = None
  /\ callState = "unused"
  /\ versionData = None
  /\ returned = None
  /\ requests = <<>>
  /\ target = None
  /\ pc = <<>>
  /\ seen = <<>>
  /\ url = <<>>
  /\ scratch = <<>>
  /\ st = <<>>
  /\ net = <<>>

CallGetTargetPath ==
  /\ targetPath = None
  /\ targetPath' = [self |-> getTargetPath(cacheDir, platform, chromeVersion),
                    other |-> getTargetPath(cacheDir, other.platform, other.chromeVersion)]
  /\ UNCHANGED <<fields, other, resolveVars, driverVars>>

NextPath == CallGetTargetPath

SpecPath == InitPath /\ [][NextPath]_vars

\* C17: with one cacheDir, two objects have the same target path exactly
\* when they have the same platform and the same version.
C17_TargetPathInjective ==
  targetPath # None =>
    ((targetPath.self = targetPath.other)
       <=> (platform = other.platform /\ chromeVersion = other.chromeVersion))

\* two objects of one version and different platforms have different paths
C17_Witness ==
  /\ targetPath # None
  /\ chromeVersion = other.chromeVersion /\ platform # other.platform
  /\ targetPath.self # targetPath.other

----------------------------------------------------------------------------
(* Properties of one call of getChromedriverUrl *)

Major(v) == int(split(v, ".")[1])
Minor(v) == int(split(v, ".")[2])
Build(v) == int(split(v, ".")[3])
Patch(v) == int(split(v, ".")[4])

SameBuild(v, w) == Major(v) = Major(w) /\ Minor(v) = Minor(w) /\ Build(v) = Build(w)

\* the versions the catalog lists, in its order
Listed == [i \in 1..Len(catalog) |-> chars(catalog[i].version)]

\* getClosestVersionMatch ran on the fetched catalog
Matched ==
  /\ callState # "ready"
  /\ Len(requests) = 1 /\ requests[1].kind = "catalog"
  /\ ~(callState = "raised" /\ returned.error = "URLError")

HasExact == \E i \in 1..Len(Listed) : Listed[i] = chromeVersion

\* patch numbers of the entries of the target's major.minor.build that do
\* not exceed the target's patch number
OlderPatches ==
  { Patch(Listed[i]) : i \in
      { j \in 1..Len(Listed) :
          /\ SameBuild(Listed[j], chromeVersion)
          /\ Patch(Listed[j]) <= Patch(chromeVersion) } }

\* C1: without an exact match, an entry returned from the candidates of the
\* target's major.minor.build has the largest patch number among those that
\* do not exceed the target's patch number, in every catalog order.
C1_LargestPatchNotExceeding ==
  (Matched /\ ~HasExact /\ versionData # None
     /\ SameBuild(versionData.version, chromeVersion))
  => \A n \in OlderPatches : n <= Patch(versionData.version)

\* C2: getClosestVersionMatch never returns an entry whose patch number is
\* greater than the target's patch number.
C2_NeverNewerPatch ==
  (Matched /\ versionData # None) => Patch(versionData.version) <= Patch(chromeVersion)

\* a newer candidate was the first of possibleVersions and was skipped, and
\* an older one was returned
C2_Witness ==
  /\ Matched /\ ~HasExact /\ versionData # None
  /\ Len(Listed) >= 2
  /\ LET last == Listed[Len(Listed)]
     IN  SameBuild(last, chromeVersion) /\ Patch(last) > Patch(chromeVersion)
  /\ Patch(versionData.version) < Patch(chromeVersion)

\* C3: when the catalog holds an entry of exactly the target version, the
\* entry returned has that version, wherever the entry stands in the catalog.
C3_ExactMatchReturned ==
  (Matched /\ HasExact) => (versionData # None /\ versionData.version = chromeVersion)

\* the exact entry comes first and is followed by an older and a newer
\* entry of the same major.minor.build
C3_Witness ==
  /\ Matched /\ versionData # None /\ versionData.version = chromeVersion
  /\ Len(Listed) = 3
  /\ Listed[1] = chromeVersion
  /\ \E i, j \in 2..3 :
       /\ SameBuild(Listed[i], chromeVersion)
       /\ Patch(Listed[i]) < Patch(chromeVersion)
       /\ SameBuild(Listed[j], chromeVersion)
       /\ Patch(Listed[j]) > Patch(chromeVersion)

\* C4: for a major version above 114, when the catalog has no exact match
\* and no entry of the target's major.minor.build with a patch number up to
\* the target's, getChromedriverUrl raises and returns no URL.
C4_NoCandidateRaises ==
  (Matched /\ Major(chromeVersion) > 114 /\ ~HasExact /\ OlderPatches = {})
  => callState = "raised"

\* C5: when the chromedriver list of the selected entry has no item of the
\* requested platform, getChromedriverUrl raises; it does not return
\* without a URL.
C5_MissingPlatformRaises ==
  (/\ Matched /\ versionData # None
   /\ "chromedriver" \in DOMAIN versionData.downloads
   /\ \A i \in 1..Len(versionData.downloads.chromedriver.list) :
        versionData.downloads.chromedriver.list[i].platform # platform)
  => callState = "raised"

\* C9: a target of major version up to 114 is resolved by one query of the
\* legacy endpoint and no catalog fetch, and the URL returned is built from
\* the endpoint's answer and the platform whatever the catalog holds; a
\* target above 114 never queries the legacy endpoint.
C9_LegacyRouting ==
  callState # "ready" =>
    IF Major(chromeVersion) <= 114
    THEN /\ Len(requests) = 1 /\ requests[1].kind = "legacy"
         /\ versionData = None
         /\ callState = "returned" =>
              returned = [scheme |-> "legacy", release |-> latestRelease, platform |-> platform]
    ELSE \A i \in 1..Len(requests) : requests[i].kind # "legacy"

\* a legacy target resolved while the catalog holds an entry of exactly
\* that version
C9_Witness ==
  /\ callState = "returned" /\ Major(chromeVersion) <= 114
  /\ \E i \in 1..Len(catalog) : chars(catalog[i].version) = chromeVersion
  /\ returned.scheme = "legacy"

\* C13: every entry getClosestVersionMatch returns has the major, minor and
\* build numbers of the target, compared as integers.
C13_SameBuildReturned ==
  (Matched /\ versionData # None) => SameBuild(versionData.version, chromeVersion)

\* C14: on the legacy path, an empty answer of the legacy endpoint makes the
\* resolution raise; no URL is returned.
C14_EmptyLegacyAnswerRaises ==
  (callState # "ready" /\ Major(chromeVersion) <= 114 /\ latestRelease = <<>>)
  => callState = "raised"

----------------------------------------------------------------------------
(* Properties of executeDriver *)

TargetValid == target.exists /\ "S_IEXEC" \in target.mode

\* the invocation went through the whole of downloadAndUnzipChromeDriver
Installed(p) == pc[p] \in {"launch", "done"} /\ seen[p] = "invalid"

\* C6 as stated: the pipeline is started, and a network request is made,
\* only in a state where the cache target is missing or not executable; an
\* invocation that finds it present and executable goes to the launch with
\* no network request.
C6_NetworkOnlyWhileInvalid ==
  [][\A p \in Procs :
       /\ (pc[p] = "executeDriver" /\ pc'[p] = "getChromedriverUrl") => ~TargetValid
       /\ net'[p] # net[p] => ~TargetValid
       /\ (pc[p] = "executeDriver" /\ pc'[p] # pc[p] /\ TargetValid)
            => (pc'[p] = "launch" /\ net'[p] = <<>>)]_vars

\* C6, amended: the pipeline is started only in a state where the cache
\* target is missing or not executable, and a network request is made only
\* by an invocation whose own check found it so; an invocation whose check
\* finds the target present and executable goes to the launch and makes no
\* network request.
C6_NetworkOnlyAfterMiss ==
  /\ [][\A p \in Procs :
          /\ (pc[p] = "executeDriver" /\ pc'[p] = "getChromedriverUrl") => ~TargetValid
          /\ net'[p] # net[p] => seen[p] = "invalid"
          /\ (pc[p] = "executeDriver" /\ pc'[p] # pc[p] /\ TargetValid)
               => (pc'[p] = "launch" /\ net'[p] = <<>>)]_vars
  /\ [](\A p \in Procs : seen[p] = "valid" => (pc[p] \in {"launch", "done"} /\ net[p] = <<>>))

\* two invocations found the target invalid; one has installed it, and the
\* other has sent its two requests all the same
C6_Witness ==
  \E p, q \in Procs :
    /\ p # q
    /\ Installed(p) /\ TargetValid
    /\ seen[q] = "invalid" /\ Len(net[q]) = 2 /\ pc[q] = "extractall"

\* C7: once an invocation has completed its install and no other invocation
\* is inside the pipeline, an invocation that starts finds the cache target
\* valid, goes to the launch and ends with no network request.
C7_SecondCallNoNetwork ==
  /\ [][\A q \in Procs :
          (/\ pc[q] = "executeDriver" /\ pc'[q] # pc[q]
           /\ \E p \in Procs \ {q} : Installed(p)
           /\ \A r \in Procs \ {q} : pc[r] \in {"executeDriver", "launch", "done", "failed"})
          => (pc'[q] = "launch" /\ net'[q] = <<>>)]_vars
  /\ [][\A q \in Procs : (pc[q] = "launch" /\ net[q] = <<>>) => net'[q] = <<>>]_vars

\* an invocation installed the driver and a later one ran it from the cache
C7_Witness ==
  \E p, q \in Procs :
    /\ p # q
    /\ pc[p] = "done" /\ seen[p] = "invalid" /\ Len(net[p]) = 2
    /\ pc[q] = "done" /\ seen[q] = "valid" /\ net[q] = <<>>
    /\ target.content = "driver"

\* C8: the check passes only for a target that exists and has the execute
\* bit; a target that exists without it sends the invocation into the
\* pipeline, and an invocation that completes the pipeline has resolved,
\* downloaded and overwritten the file.
C8_NonExecutableIsMiss ==
  /\ [][\A p \in Procs :
          /\ (pc[p] = "executeDriver" /\ pc'[p] = "launch")
               => (target.exists /\ "S_IEXEC" \in target.mode)
          /\ (pc[p] = "executeDriver" /\ pc'[p] # pc[p]
                /\ target.exists /\ "S_IEXEC" \notin target.mode)
               => pc'[p] = "getChromedriverUrl"
          /\ (pc[p] = "chmod" /\ pc'[p] = "launch")
               => (/\ Len(net[p]) = 2 /\ net[p][2] = "archive"
                   /\ target'.exists /\ target'.content \in {"partial", "driver"})]_vars
  /\ [](\A p \in Procs : Installed(p) => (target.exists /\ target.content # "stale"))

\* the only invocation that left its start found a file without the execute
\* bit, and has replaced it and made it executable
C8_Witness ==
  \E p \in Procs :
    /\ pc[p] = "launch" /\ seen[p] = "invalid"
    /\ \A q \in Procs \ {p} : pc[q] = "executeDriver"
    /\ target.content = "driver" /\ "S_IEXEC" \in target.mode
    /\ "S_IXGRP" \in target.mode

\* C10: when the pipeline of an invocation has finished, with the install
\* done or with an exception, its scratch directory does not exist.
C10_ScratchRemoved ==
  \A p \in Procs : pc[p] \in {"launch", "done", "failed"} => ~scratch[p].dir

\* one invocation failed after its download and another completed its
\* install; no scratch directory is left
C10_Witness ==
  \E p, q \in Procs :
    /\ pc[p] = "failed" /\ Len(net[p]) = 2 /\ net[p][2] = "archive"
    /\ pc[q] = "done" /\ seen[q] = "invalid"
    /\ ~scratch[p].dir /\ ~scratch[q].dir

\* C11: the driver is run only in a state where the cache target exists and
\* is executable, and an invocation in which a step has raised never runs
\* the driver.
C11_LaunchOnlyValid ==
  /\ [][\A p \in Procs :
          /\ (pc[p] = "launch" /\ pc'[p] = "done") => TargetValid
          /\ pc'[p] = "done" => pc[p] \in {"launch", "done"}
          /\ pc[p] \in {"raising", "failed"} => pc'[p] \in {"raising", "failed"}]_vars
  /\ [](\A p \in Procs : pc[p] \in {"launch", "done"} => TargetValid)

\* an invocation whose resolution raised has ended without running the
\* driver, next to one that installed the driver and ran it
C11_Witness ==
  \E p, q \in Procs :
    /\ pc[p] = "failed" /\ Len(net[p]) = 1
    /\ pc[q] = "done" /\ seen[q] = "invalid"
    /\ TargetValid

\* C12: nothing excludes a second writer: an invocation that finds the
\* target invalid enters the pipeline whatever the other invocations are
\* doing, and its copy opens the target for writing while another
\* invocation is writing it.
C12_NoMutualExclusion ==
  [][\A p \in Procs :
       /\ (pc[p] = "executeDriver" /\ pc'[p] # pc[p] /\ ~TargetValid)
            => pc'[p] = "getChromedriverUrl"
       /\ (pc[p] = "copyfile" /\ pc'[p] # pc[p]
             /\ getPathInZip(chromeVersion, platform) \in scratch[p].files
             /\ (target.exists => "S_IWUSR" \in target.mode))
            => pc'[p] = "copying"]_vars

\* two invocations found the target invalid, both resolved and downloaded,
\* and both are writing the target
C12_Witness ==
  \E p, q \in Procs :
    /\ p # q
    /\ seen[p] = "invalid" /\ seen[q] = "invalid"
    /\ Len(net[p]) = 2 /\ Len(net[q]) = 2
    /\ pc[p] = "copying" /\ pc[q] = "copying"

\* C15: the chmod of the install keeps every permission bit the target had
\* and changes none but the owner-execute bit, which is set afterwards.
C15_ChmodOnlyAddsExec ==
  [][\A p \in Procs :
       (pc[p] = "chmod" /\ pc'[p] = "launch")
       => /\ target.mode \subseteq target'.mode
          /\ target'.mode \ target.mode \subseteq {"S_IEXEC"}
          /\ "S_IEXEC" \in target'.mode]_vars

\* the install replaced a file that had the group-execute bit and not the
\* owner-execute bit: both are set after the chmod
C15_Witness ==
  \E p \in Procs :
    /\ pc[p] = "launch" /\ seen[p] = "invalid"
    /\ target.mode = {"S_IWUSR", "S_IXGRP", "S_IEXEC"}
    /\ target.content = "driver"

\* the number of requests of a kind that an invocation has sent
Count(p, kind) == Cardinality({ i \in 1..Len(net[p]) : net[p][i] = kind })

\* C16: an invocation sends at most one request of each kind, a resolution
\* sends exactly one request (the catalog fetch above major 114, the legacy
\* query up to 114), and an invocation in which a step has raised sends
\* nothing more and takes no other step than its exit.
C16_NoRetry ==
  /\ [](\A p \in Procs :
          /\ \A kind \in {"catalog", "legacy", "archive"} : Count(p, kind) <= 1
          /\ pc[p] \notin {"executeDriver", "getChromedriverUrl"} /\ seen[p] = "invalid"
               => /\ Len(net[p]) >= 1
                  /\ net[p][1] = IF Major(chromeVersion) <= 114 THEN "legacy" ELSE "catalog"
                  /\ \A i \in 2..Len(net[p]) : net[p][i] = "archive")
  /\ [][\A p \in Procs :
          pc[p] \in {"raising", "failed"}
          => (net'[p] = net[p] /\ pc'[p] \in {"raising", "failed"})]_vars

\* an invocation of a version above 114 failed at its download after one
\* catalog fetch, and ended
C16_Witness ==
  \E p \in Procs :
    /\ Major(chromeVersion) > 114
    /\ pc[p] = "failed" /\ net[p] = <<"catalog", "archive">>

\* C18: a step that fails in the resolution, the download or the unzip, or
\* on the missing binary, leaves the cache target as it was; so do the
\* steps of the pipeline that come before the copy.
C18_FailureLeavesTarget ==
  [][\A p \in Procs :
       /\ (pc[p] \in {"getChromedriverUrl", "urlretrieve", "extractall"} /\ pc'[p] # pc[p])
            => target' = target
       /\ (pc[p] = "copyfile" /\ pc'[p] = "raising"
             /\ getPathInZip(chromeVersion, platform) \notin scratch[p].files)
            => target' = target]_vars

\* the archive was unzipped and did not hold the binary: the invocation has
\* raised, no other has started, and the file that was there is as it was
C18_Witness ==
  \E p \in Procs :
    /\ pc[p] = "raising" /\ scratch[p].zip # None /\ scratch[p].zip.zip
    /\ getPathInZip(chromeVersion, platform) \notin scratch[p].files
    /\ \A q \in Procs \ {p} : pc[q] = "executeDriver"
    /\ target.exists /\ target.content = "stale" /\ "S_IWUSR" \in target.mode

\* C19: a copy finds its source at <root>/chromedriver exactly when the URL
\* of the invocation came from the legacy endpoint, and at
\* <root>/chromedriver-<platform>/chromedriver exactly when it came from
\* the catalog; the legacy endpoint is the one asked exactly up to major
\* version 114.
C19_SchemeAndLayoutAgree ==
  /\ [][\A p \in Procs :
          (pc[p] = "copyfile" /\ pc'[p] \in {"copying", "stat"})
          => /\ (<<"chromedriver">> \in scratch[p].files) <=> (net[p][1] = "legacy")
             /\ (<<"chromedriver-", platform, "chromedriver">> \in scratch[p].files)
                  <=> (net[p][1] = "catalog")]_vars
  /\ [](\A p \in Procs :
          Len(net[p]) >= 1 => ((net[p][1] = "legacy") <=> (Major(chromeVersion) <= 114)))

\* a version of major 114 was resolved by the legacy endpoint and its
\* driver copied from <root>/chromedriver
C19_Witness ==
  \E p \in Procs :
    /\ Major(chromeVersion) = 114
    /\ pc[p] = "copying" /\ net[p] = <<"legacy", "archive">>
    /\ scratch[p].files = {<<"chromedriver">>}

\* C20: the cache target never passes the validity check (exists and is
\* executable) while a copy into it is in progress.
C20_NeverValidWhileCopying ==
  \A p \in Procs : pc[p] = "copying" => ~TargetValid

====
